---- MODULE Spec2Model ----
(***************************************************************************)
(* Model of the evaluator of yowenter/conditions (package conditions):     *)
(* Evaluate / evaluateSubtree / applyOperator and the apply* and get*      *)
(* helpers.  Go values are modelled as follows.                            *)
(*   - a string is a sequence of one-character strings;                    *)
(*   - a float64 is a fixed-point number counted in 1/Scale units;         *)
(*   - a time.Time is a number of seconds, and so is the clock `now`;      *)
(*   - an Expr interface value reaching an operator is a pointer           *)
(*     [ptr, lit]: ptr says where the literal lives (a fresh allocation,   *)
(*     the package-level falseExpr, a node of the caller's tree, or nil),  *)
(*     lit is the literal it pointed to when the pointer was made;         *)
(*   - a panic is an outcome of its own, distinct from a returned error.   *)
(***************************************************************************)
EXTENDS Integers, Sequences, FiniteSets, TLC

\* ------------------------------------------------------------------ bounds
\* fixed-point resolution of float64 values: a number n stands for n/Scale
Scale == 2
\* largest number (in 1/Scale units) among the operands and record values
MaxNum == 3
\* the clock runs over the instants k * (SecondsPerDay \div 2) (+1), k <= MaxHalfDays
MaxHalfDays == 3
\* the clock of the goroutines runs over k days and k seconds, k <= MaxDays
MaxDays == 1

\* seconds in a day: the factor of `time.Second * 86400`
SecondsPerDay == 86400

\* ------------------------------------------------------------ AST literals
NilLit == [type |-> "nil"]
BooleanLiteral(b) == [type |-> "BooleanLiteral", bool |-> b]
NumberLiteral(n) == [type |-> "NumberLiteral", num |-> n]
StringLiteral(s) == [type |-> "StringLiteral", str |-> s]
TimeLiteral(t) == [type |-> "TimeLiteral", time |-> t]
DurationLiteral(d) == [type |-> "DurationLiteral", dur |-> d]
SliceStringLiteral(ss) == [type |-> "SliceStringLiteral", strs |-> ss]
SliceNumberLiteral(ns) == [type |-> "SliceNumberLiteral", nums |-> ns]
VarRef(name) == [type |-> "VarRef", name |-> name]
ParenExpr(e) == [type |-> "ParenExpr", Expr |-> e]
BinaryExpr(op, l, r) == [type |-> "BinaryExpr", Op |-> op, LHS |-> l, RHS |-> r]

LiteralTypes ==
    {"BooleanLiteral", "NumberLiteral", "StringLiteral", "TimeLiteral",
     "DurationLiteral", "SliceStringLiteral", "SliceNumberLiteral"}

\* the operator tokens applyOperator dispatches on, and one it does not know
Operators ==
    {"AND", "OR", "EQ", "NEQ", "GT", "GTE", "LT", "LTE", "XOR", "NAND",
     "IN", "CONTAINS", "BEFORE", "NOTIN", "EREG", "NEREG"}
Tokens == Operators \cup {"ILLEGAL"}

\* ---------------------------------------------------------------- pointers
FreshPtr == <<"fresh">>
FalseExprPtr == <<"falseExpr">>
NilPtr == <<"nil">>
AstPtr(path) == <<"ast">> \o path

RECURSIVE NodeAt(_, _)
NodeAt(tree, path) ==
    IF path = <<>> THEN tree
    ELSE IF Head(path) = "LHS" THEN NodeAt(tree.LHS, Tail(path))
    ELSE IF Head(path) = "RHS" THEN NodeAt(tree.RHS, Tail(path))
    ELSE NodeAt(tree.Expr, Tail(path))

RECURSIVE SetNode(_, _, _)
SetNode(tree, path, node) ==
    IF path = <<>> THEN node
    ELSE IF Head(path) = "LHS"
         THEN [tree EXCEPT !.LHS = SetNode(tree.LHS, Tail(path), node)]
    ELSE IF Head(path) = "RHS"
         THEN [tree EXCEPT !.RHS = SetNode(tree.RHS, Tail(path), node)]
    ELSE [tree EXCEPT !.Expr = SetNode(tree.Expr, Tail(path), node)]

\* an Expr value handed to an operator: where it points, and what was there
Operand(ptr, lit) == [ptr |-> ptr, lit |-> lit]
Fresh(lit) == Operand(FreshPtr, lit)

\* the memory an evaluation reads and writes, and the clock it reads
Env(fe, tree, clock) == [falseExpr |-> fe, ast |-> tree, now |-> clock]

\* the literal a pointer points to now
Load(e, env) ==
    IF e.ptr = FalseExprPtr THEN BooleanLiteral(env.falseExpr)
    ELSE IF Head(e.ptr) = "ast" THEN NodeAt(env.ast, Tail(e.ptr))
    ELSE e.lit

\* ----------------------------------------------------------------- results
NoErr == ""
\* (result, err) of an apply* function
Ret(e, err) == [ptr |-> e.ptr, lit |-> e.lit, err |-> err, panic |-> FALSE]
RetNil(err) == [ptr |-> NilPtr, lit |-> NilLit, err |-> err, panic |-> FALSE]
RetFalseExpr(err) ==
    [ptr |-> FalseExprPtr, lit |-> BooleanLiteral(FALSE), err |-> err, panic |-> FALSE]
Panic == [ptr |-> NilPtr, lit |-> NilLit, err |-> NoErr, panic |-> TRUE]

\* ----------------------------------------------------------------- getters
getBoolean(e, env) ==
    LET n == Load(e, env) IN
    IF n.type = "BooleanLiteral" THEN [v |-> n.bool, err |-> NoErr]
    ELSE [v |-> FALSE, err |-> "Literal is not a boolean"]

getTime(e, env) ==
    LET t == Load(e, env) IN
    IF t.type = "TimeLiteral" THEN [v |-> t.time, err |-> NoErr]
    ELSE [v |-> 0, err |-> "Literal is not a time"]

getString(e, env) ==
    LET n == Load(e, env) IN
    IF n.type = "StringLiteral" THEN [v |-> n.str, err |-> NoErr]
    ELSE [v |-> <<>>, err |-> "Literal is not a string"]

getSliceNumber(e, env) ==
    LET n == Load(e, env) IN
    IF n.type = "SliceNumberLiteral" THEN [v |-> n.nums, err |-> NoErr]
    ELSE [v |-> <<>>, err |-> "Literal is not a slice of float64"]

getSliceString(e, env) ==
    LET n == Load(e, env) IN
    IF n.type = "SliceStringLiteral" THEN [v |-> n.strs, err |-> NoErr]
    ELSE [v |-> <<>>, err |-> "Literal is not a slice of string"]

getNumber(e, env) ==
    LET n == Load(e, env) IN
    IF n.type = "NumberLiteral" THEN [v |-> n.num, err |-> NoErr]
    ELSE [v |-> 0, err |-> "Literal is not a number"]

\* ------------------------------------------------------- library functions
\* strings.Contains(s, sub)
Contains(s, sub) ==
    \E i \in 1..(Len(s) + 1) :
        /\ i + Len(sub) - 1 <= Len(s)
        /\ SubSeq(s, i, i + Len(sub) - 1) = sub

\* regexp.MatchString(pattern, s) for patterns over literal characters, "."
\* (any character), "^" (start of text) and "(" (an unclosed group: the
\* pattern does not compile).
RECURSIVE MatchHere(_, _, _)
MatchHere(p, s, pos) ==
    IF p = <<>> THEN TRUE
    ELSE IF Head(p) = "^" THEN pos = 1 /\ MatchHere(Tail(p), s, pos)
    ELSE IF Head(p) = "." THEN pos <= Len(s) /\ MatchHere(Tail(p), s, pos + 1)
    ELSE pos <= Len(s) /\ s[pos] = Head(p) /\ MatchHere(Tail(p), s, pos + 1)

MatchString(pattern, s) ==
    IF \E i \in 1..Len(pattern) : pattern[i] = "("
    THEN [v |-> FALSE, err |-> "error parsing regexp"]
    ELSE [v |-> \E pos \in 1..(Len(s) + 1) : MatchHere(pattern, s, pos),
          err |-> NoErr]

\* time.Duration(days): a float64 converted to int64 drops the fraction
DurationOf(days) ==
    IF days >= 0 THEN days \div Scale ELSE -((-days) \div Scale)

\* e is an element of the slice b (the scan runs to the end of b)
InSlice(a, b) == \E i \in 1..Len(b) : a = b[i]

\* ----------------------------------------------------------- the operators
applyXOR(l, r, env) ==
    LET a == getBoolean(l, env)
        b == getBoolean(r, env)
    IN  IF a.err # NoErr THEN RetNil(a.err)
        ELSE IF b.err # NoErr THEN RetNil(b.err)
        ELSE Ret(Fresh(BooleanLiteral(a.v # b.v)), NoErr)

applyNAND(l, r, env) ==
    LET a == getBoolean(l, env)
        b == getBoolean(r, env)
    IN  IF a.err # NoErr THEN RetNil(a.err)
        ELSE IF b.err # NoErr THEN RetNil(b.err)
        ELSE Ret(Fresh(BooleanLiteral(~(a.v /\ b.v))), NoErr)

applyAND(l, r, env) ==
    LET a == getBoolean(l, env)
        b == getBoolean(r, env)
    IN  IF a.err # NoErr THEN RetNil(a.err)
        ELSE IF b.err # NoErr THEN RetNil(b.err)
        ELSE Ret(Fresh(BooleanLiteral(a.v /\ b.v)), NoErr)

applyOR(l, r, env) ==
    LET a == getBoolean(l, env)
        b == getBoolean(r, env)
    IN  IF a.err # NoErr THEN RetNil(a.err)
        ELSE IF b.err # NoErr THEN RetNil(b.err)
        ELSE Ret(Fresh(BooleanLiteral(a.v \/ b.v)), NoErr)

\* applyEQ tries the operands as strings, then numbers, then booleans
applyEQ(l, r, env) ==
    LET as == getString(l, env)
        bs == getString(r, env)
        an == getNumber(l, env)
        bn == getNumber(r, env)
        ab == getBoolean(l, env)
        bb == getBoolean(r, env)
    IN  IF as.err = NoErr
        THEN IF bs.err # NoErr
             THEN RetFalseExpr("Cannot compare string with non-string")
             ELSE Ret(Fresh(BooleanLiteral(as.v = bs.v)), NoErr)
        ELSE IF an.err = NoErr
        THEN IF bn.err # NoErr
             THEN RetFalseExpr("Cannot compare number with non-number")
             ELSE Ret(Fresh(BooleanLiteral(an.v = bn.v)), NoErr)
        ELSE IF ab.err = NoErr
        THEN IF bb.err # NoErr
             THEN RetFalseExpr("Cannot compare boolean with non-boolean")
             ELSE Ret(Fresh(BooleanLiteral(ab.v = bb.v)), NoErr)
        ELSE RetFalseExpr(NoErr)

applyNQ(l, r, env) ==
    LET as == getString(l, env)
        bs == getString(r, env)
        an == getNumber(l, env)
        bn == getNumber(r, env)
        ab == getBoolean(l, env)
        bb == getBoolean(r, env)
    IN  IF as.err = NoErr
        THEN IF bs.err # NoErr
             THEN RetFalseExpr("Cannot compare string with non-string")
             ELSE Ret(Fresh(BooleanLiteral(as.v # bs.v)), NoErr)
        ELSE IF an.err = NoErr
        THEN IF bn.err # NoErr
             THEN RetFalseExpr("Cannot compare number with non-number")
             ELSE Ret(Fresh(BooleanLiteral(an.v # bn.v)), NoErr)
        ELSE IF ab.err = NoErr
        THEN IF bb.err # NoErr
             THEN RetFalseExpr("Cannot compare boolean with non-boolean")
             ELSE Ret(Fresh(BooleanLiteral(ab.v # bb.v)), NoErr)
        ELSE RetFalseExpr(NoErr)

applyGT(l, r, env) ==
    LET a == getNumber(l, env)
        b == getNumber(r, env)
    IN  IF a.err # NoErr THEN RetNil(a.err)
        ELSE IF b.err # NoErr THEN RetNil(b.err)
        ELSE Ret(Fresh(BooleanLiteral(a.v > b.v)), NoErr)

applyGTE(l, r, env) ==
    LET a == getNumber(l, env)
        b == getNumber(r, env)
    IN  IF a.err # NoErr THEN RetNil(a.err)
        ELSE IF b.err # NoErr THEN RetNil(b.err)
        ELSE Ret(Fresh(BooleanLiteral(a.v >= b.v)), NoErr)

applyLT(l, r, env) ==
    LET a == getNumber(l, env)
        b == getNumber(r, env)
    IN  IF a.err # NoErr THEN RetNil(a.err)
        ELSE IF b.err # NoErr THEN RetNil(b.err)
        ELSE Ret(Fresh(BooleanLiteral(a.v < b.v)), NoErr)

\* applyLTE returns falseExpr, not nil, beside its error
applyLTE(l, r, env) ==
    LET a == getNumber(l, env)
        b == getNumber(r, env)
    IN  IF a.err # NoErr THEN RetFalseExpr(a.err)
        ELSE IF b.err # NoErr THEN RetFalseExpr(b.err)
        ELSE Ret(Fresh(BooleanLiteral(a.v <= b.v)), NoErr)

\* applyIN handing out the shared falseExpr for "not found", as applyEQ does
\* for operands it cannot compare
applyIN_sharedFalse(l, r, env) ==
    LET t == Load(l, env).type IN
    IF t = "StringLiteral"
    THEN LET a == getString(l, env)
             b == getSliceString(r, env)
         IN  IF a.err # NoErr THEN RetNil(a.err)
             ELSE IF b.err # NoErr THEN RetNil(b.err)
             ELSE IF InSlice(a.v, b.v) THEN Ret(Fresh(BooleanLiteral(TRUE)), NoErr)
             ELSE RetFalseExpr(NoErr)
    ELSE IF t = "NumberLiteral"
    THEN LET a == getNumber(l, env)
             b == getSliceNumber(r, env)
         IN  IF a.err # NoErr THEN RetNil(a.err)
             ELSE IF b.err # NoErr THEN RetNil(b.err)
             ELSE IF InSlice(a.v, b.v) THEN Ret(Fresh(BooleanLiteral(TRUE)), NoErr)
             ELSE RetFalseExpr(NoErr)
    ELSE RetNil("Can not evaluate Literal of unknow type")

applyIN(l, r, env) ==
    LET t == Load(l, env).type IN
    IF t = "StringLiteral"
    THEN LET a == getString(l, env)
             b == getSliceString(r, env)
         IN  IF a.err # NoErr THEN RetNil(a.err)
             ELSE IF b.err # NoErr THEN RetNil(b.err)
             ELSE Ret(Fresh(BooleanLiteral(InSlice(a.v, b.v))), NoErr)
    ELSE IF t = "NumberLiteral"
    THEN LET a == getNumber(l, env)
             b == getSliceNumber(r, env)
         IN  IF a.err # NoErr THEN RetNil(a.err)
             ELSE IF b.err # NoErr THEN RetNil(b.err)
             ELSE Ret(Fresh(BooleanLiteral(InSlice(a.v, b.v))), NoErr)
    ELSE RetNil("Can not evaluate Literal of unknow type")

applyContains(l, r, env) ==
    LET t == Load(r, env).type IN
    IF t = "StringLiteral"
    THEN LET a == getString(r, env)
             bb == getString(l, env)
             b == getSliceString(l, env)
         IN  IF a.err # NoErr THEN RetNil(a.err)
             ELSE IF Load(l, env).type = "StringLiteral"
             THEN IF bb.err # NoErr THEN RetNil(bb.err)
                  ELSE Ret(Fresh(BooleanLiteral(Contains(bb.v, a.v))), NoErr)
             ELSE IF b.err # NoErr THEN RetNil(b.err)
             ELSE Ret(Fresh(BooleanLiteral(InSlice(a.v, b.v))), NoErr)
    ELSE IF t = "NumberLiteral"
    THEN LET a == getNumber(r, env)
             b == getSliceNumber(l, env)
         IN  IF a.err # NoErr THEN RetNil(a.err)
             ELSE IF b.err # NoErr THEN RetNil(b.err)
             ELSE Ret(Fresh(BooleanLiteral(InSlice(a.v, b.v))), NoErr)
    ELSE RetNil("Can not evaluate Literal of unknow type")

applyBefore(l, r, env) ==
    IF Load(l, env).type = "TimeLiteral"
    THEN LET dt == getTime(l, env) IN
         IF dt.err # NoErr THEN RetNil(dt.err)
         ELSE IF Load(r, env).type = "NumberLiteral"
         THEN LET days == getNumber(r, env) IN
              IF days.err # NoErr THEN RetNil(days.err)
              ELSE LET dur == DurationOf(days.v) * SecondsPerDay IN
                   Ret(Fresh(BooleanLiteral(env.now - dt.v > dur)), NoErr)
         ELSE Ret(Fresh(BooleanLiteral(FALSE)), NoErr)
    ELSE RetNil("Can not evaluate Literal of unknow type")

\* applyEREG handing out the shared falseExpr when the pattern does not match
applyEREG_sharedFalse(l, r, env) ==
    LET a == getString(l, env)
        b == getString(r, env)
    IN  IF a.err # NoErr THEN RetNil(a.err)
        ELSE IF b.err # NoErr THEN RetNil(b.err)
        ELSE LET m == MatchString(b.v, a.v) IN
             IF m.v THEN Ret(Fresh(BooleanLiteral(TRUE)), m.err)
             ELSE RetFalseExpr(m.err)

applyEREG(l, r, env) ==
    LET a == getString(l, env)
        b == getString(r, env)
    IN  IF a.err # NoErr THEN RetNil(a.err)
        ELSE IF b.err # NoErr THEN RetNil(b.err)
        ELSE LET m == MatchString(b.v, a.v) IN
             Ret(Fresh(BooleanLiteral(m.v)), m.err)

\* an operator's outcome together with the memory it leaves
Outcome(res, env) == [res |-> res, env |-> env]

\* `result.Val = !result.Val`: a write through the pointer the positive
\* operator returned; a nil pointer makes it panic (err is then the error
\* that was in hand)
NegateInPlace(result, env) ==
    IF result.ptr = NilPtr THEN Outcome([Panic EXCEPT !.err = result.err], env)
    ELSE LET b == ~Load(result, env).bool IN
         IF result.ptr = FreshPtr
         THEN Outcome([result EXCEPT !.lit = BooleanLiteral(b)], env)
         ELSE IF result.ptr = FalseExprPtr
         THEN Outcome(result, [env EXCEPT !.falseExpr = b])
         ELSE Outcome(result,
                      [env EXCEPT !.ast = SetNode(env.ast, Tail(result.ptr),
                                                  BooleanLiteral(b))])

applyNEREG(l, r, env) == NegateInPlace(applyEREG(l, r, env), env)

applyNOTIN(l, r, env) == NegateInPlace(applyIN(l, r, env), env)

applyOperator(op, l, r, env) ==
    CASE op = "AND" -> Outcome(applyAND(l, r, env), env)
      [] op = "OR" -> Outcome(applyOR(l, r, env), env)
      [] op = "EQ" -> Outcome(applyEQ(l, r, env), env)
      [] op = "NEQ" -> Outcome(applyNQ(l, r, env), env)
      [] op = "GT" -> Outcome(applyGT(l, r, env), env)
      [] op = "GTE" -> Outcome(applyGTE(l, r, env), env)
      [] op = "LT" -> Outcome(applyLT(l, r, env), env)
      [] op = "LTE" -> Outcome(applyLTE(l, r, env), env)
      [] op = "XOR" -> Outcome(applyXOR(l, r, env), env)
      [] op = "NAND" -> Outcome(applyNAND(l, r, env), env)
      [] op = "IN" -> Outcome(applyIN(l, r, env), env)
      [] op = "CONTAINS" -> Outcome(applyContains(l, r, env), env)
      [] op = "BEFORE" -> Outcome(applyBefore(l, r, env), env)
      [] op = "NOTIN" -> applyNOTIN(l, r, env)
      [] op = "EREG" -> Outcome(applyEREG(l, r, env), env)
      [] op = "NEREG" -> applyNEREG(l, r, env)
      [] OTHER -> Outcome(Ret(Fresh(BooleanLiteral(FALSE)), "Unsupported operator"), env)

\* ------------------------------------------------------- records and values
\* a value held by a record: its runtime type, and the value
Absent == [rt |-> "absent"]
NilVal == [rt |-> "nil"]
TimeVal(t) == [rt |-> "time.Time", time |-> t]
IntVal(rt, i) == [rt |-> rt, int |-> i]
FloatVal(rt, f) == [rt |-> rt, flt |-> f]
StringVal(s) == [rt |-> "string", str |-> s]
BoolVal(b) == [rt |-> "bool", bool |-> b]
StringsVal(ss) == [rt |-> "[]string", strs |-> ss]
IntsVal(ns) == [rt |-> "[]int", ints |-> ns]
ChanVal == [rt |-> "chan int"]

\* the runtime types of integers: those the classification converts, the
\* other built-in ones, and a defined type whose kind is Int64
ConvertedIntTypes == {"int", "int32", "int64"}
OtherIntTypes == {"int8", "int16", "uint", "uint8", "time.Duration"}
FloatTypes == {"float32", "float64"}

\* reflect.TypeOf(val).Kind()
KindOf(rt) ==
    CASE rt = "time.Duration" -> "int64"
      [] rt \in {"[]string", "[]int"} -> "slice"
      [] rt = "time.Time" -> "struct"
      [] rt = "chan int" -> "chan"
      [] OTHER -> rt

\* record shapes: reflect.TypeOf(args).Kind(), and whether args is a
\* map[string]interface{}
ArgsKind(shape) ==
    CASE shape \in {"map[string]interface{}", "map[string]string"} -> "map"
      [] shape = "struct" -> "struct"
      [] shape = "*struct" -> "ptr"
      [] OTHER -> shape

\* names of struct fields that are exported (fval.Interface() panics on the others)
Exported(name) == name \in {"A", "B"}

\* float64(val.(int)) and its siblings
Float64OfInt(i) == i * Scale

\* the VarRef case of evaluateSubtree
classify(val) ==
    IF val.rt = "time.Time" THEN Ret(Fresh(TimeLiteral(val.time)), NoErr)
    ELSE IF val.rt = "nil" THEN Panic
    ELSE LET kind == KindOf(val.rt) IN
         IF kind \in ConvertedIntTypes
         THEN IF val.rt = kind
              THEN Ret(Fresh(NumberLiteral(Float64OfInt(val.int))), NoErr)
              ELSE Panic
         ELSE IF kind \in FloatTypes
         THEN Ret(Fresh(NumberLiteral(val.flt)), NoErr)
         ELSE IF kind = "string" THEN Ret(Fresh(StringLiteral(val.str)), NoErr)
         ELSE IF kind = "bool" THEN Ret(Fresh(BooleanLiteral(val.bool)), NoErr)
         ELSE IF kind = "slice"
         THEN IF val.rt = "[]string"
              THEN Ret(Fresh(SliceStringLiteral(val.strs)), NoErr)
              ELSE Panic
         ELSE RetFalseExpr("Unsupported argument type")

\* a lookup that, for a name the map does not hold, falls back to the entry
\* under "c" instead of failing
resolveVarRef_fallback(index, args) ==
    IF args.shape = "nil" THEN Panic
    ELSE IF ArgsKind(args.shape) = "map"
    THEN IF args.shape # "map[string]interface{}"
         THEN RetFalseExpr("Args convert to map not ok")
         ELSE IF args.fields[index] = Absent
         THEN IF args.fields["c"] = Absent
              THEN RetFalseExpr("Argument not found")
              ELSE classify(args.fields["c"])
         ELSE classify(args.fields[index])
    ELSE IF ArgsKind(args.shape) = "struct"
    THEN IF args.fields[index] = Absent
         THEN RetFalseExpr("Argument not found in args")
         ELSE IF ~Exported(index) THEN Panic
         ELSE classify(args.fields[index])
    ELSE RetFalseExpr("Args is not map or struct")

resolveVarRef(index, args) ==
    IF args.shape = "nil" THEN Panic
    ELSE IF ArgsKind(args.shape) = "map"
    THEN IF args.shape # "map[string]interface{}"
         THEN RetFalseExpr("Args convert to map not ok")
         ELSE IF args.fields[index] = Absent
         THEN RetFalseExpr("Argument not found")
         ELSE classify(args.fields[index])
    ELSE IF ArgsKind(args.shape) = "struct"
    THEN IF args.fields[index] = Absent
         THEN RetFalseExpr("Argument not found in args")
         ELSE IF ~Exported(index) THEN Panic
         ELSE classify(args.fields[index])
    ELSE RetFalseExpr("Args is not map or struct")

\* lines 22-29 of Evaluate: what the caller gets from the root's reduction
EvaluateResult(result, env) ==
    IF result.err # NoErr THEN [val |-> FALSE, err |-> result.err]
    ELSE IF Load(result, env).type = "BooleanLiteral"
    THEN [val |-> Load(result, env).bool, err |-> NoErr]
    ELSE [val |-> FALSE, err |-> "Unexpected result of the root expression"]

\* ------------------------------------------------------------------- state
VARIABLES
    ast,        \* the expression tree the callers share
    falseExpr,  \* falseExpr.Val, the package-level literal
    now,        \* the wall clock, in seconds
    pc,         \* per goroutine: idle, enter, return, done, panic
    args,       \* per goroutine: the record passed to Evaluate
    stack,      \* per goroutine: the BinaryExpr activations of evaluateSubtree
    cur,        \* per goroutine: the path of the node evaluateSubtree is entering
    ret,        \* per goroutine: what the last evaluateSubtree call returned
    out,        \* per goroutine: what Evaluate returned
    trace,      \* per goroutine: the steps of the current call, in order: a node is
                \* reduced, produces an error, a BinaryExpr gets the value or the
                \* error of its LHS or RHS, its operator is applied
    reads,      \* per goroutine: the clock readings the current call took
    probe,      \* input of a single operator application or VarRef resolution
    probeOut    \* its outcome

vars == <<ast, falseExpr, now, pc, args, stack, cur, ret, out, trace, reads,
          probe, probeOut>>

Goroutines == {1, 2}

NoArgs == [shape |-> "none"]
NoRet == RetNil(NoErr)
NoOut == [val |-> FALSE, err |-> "none"]
NoOperand == Operand(NilPtr, NilLit)
NoProbe == [kind |-> "none"]
NoProbeOut == [kind |-> "none"]

Frame(path, phase, lv) == [path |-> path, phase |-> phase, lv |-> lv]
Event(ev, path) == [ev |-> ev, path |-> path]
Top(t) == stack[t][Len(stack[t])]
Pop(t) == SubSeq(stack[t], 1, Len(stack[t]) - 1)
CurEnv == Env(falseExpr, ast, now)

\* an unrecovered panic ends the process: no goroutine runs after it
NoPanic == \A t \in Goroutines : pc[t] # "panic"

\* Evaluate(expr, args), up to the first call of evaluateSubtree
Call(t, a) ==
    /\ NoPanic
    /\ pc[t] = "idle"
    /\ args' = [args EXCEPT ![t] = a]
    /\ trace' = [trace EXCEPT ![t] = <<>>]
    /\ reads' = [reads EXCEPT ![t] = <<>>]
    /\ IF ast = NilLit
       THEN /\ pc' = [pc EXCEPT ![t] = "done"]
            /\ out' = [out EXCEPT ![t] =
                          [val |-> FALSE, err |-> "Provided expression is nil"]]
            /\ UNCHANGED cur
       ELSE /\ pc' = [pc EXCEPT ![t] = "enter"]
            /\ cur' = [cur EXCEPT ![t] = <<>>]
            /\ UNCHANGED out
    /\ UNCHANGED <<ast, falseExpr, now, stack, ret, probe, probeOut>>

\* evaluateSubtree(nil, args)
EnterNil(t) ==
    /\ NoPanic
    /\ pc[t] = "enter"
    /\ NodeAt(ast, cur[t]) = NilLit
    /\ ret' = [ret EXCEPT ![t] = RetFalseExpr("Provided expression is nil")]
    /\ pc' = [pc EXCEPT ![t] = "return"]
    /\ trace' = [trace EXCEPT ![t] =
                    @ \o <<Event("reduce", cur[t]), Event("error", cur[t])>>]
    /\ UNCHANGED <<ast, falseExpr, now, args, stack, cur, out, reads, probe, probeOut>>

\* case *ParenExpr: the inner reduction is returned as it is
EnterParenExpr(t) ==
    /\ NoPanic
    /\ pc[t] = "enter"
    /\ NodeAt(ast, cur[t]).type = "ParenExpr"
    /\ cur' = [cur EXCEPT ![t] = @ \o <<"Expr">>]
    /\ trace' = [trace EXCEPT ![t] = Append(@, Event("reduce", cur[t]))]
    /\ UNCHANGED <<ast, falseExpr, now, pc, args, stack, ret, out, reads, probe, probeOut>>

\* case *BinaryExpr: the call of evaluateSubtree(n.LHS, args)
EnterBinaryExpr(t) ==
    /\ NoPanic
    /\ pc[t] = "enter"
    /\ NodeAt(ast, cur[t]).type = "BinaryExpr"
    /\ stack' = [stack EXCEPT ![t] = Append(@, Frame(cur[t], "LHS", NoOperand))]
    /\ cur' = [cur EXCEPT ![t] = @ \o <<"LHS">>]
    /\ trace' = [trace EXCEPT ![t] = Append(@, Event("reduce", cur[t]))]
    /\ UNCHANGED <<ast, falseExpr, now, pc, args, ret, out, reads, probe, probeOut>>

\* case *VarRef: lookup and classification
EnterVarRef(t) ==
    /\ NoPanic
    /\ pc[t] = "enter"
    /\ NodeAt(ast, cur[t]).type = "VarRef"
    /\ LET r == resolveVarRef(NodeAt(ast, cur[t]).name, args[t]) IN
       IF r.panic
       THEN /\ pc' = [pc EXCEPT ![t] = "panic"]
            /\ UNCHANGED ret
       ELSE /\ pc' = [pc EXCEPT ![t] = "return"]
            /\ ret' = [ret EXCEPT ![t] = r]
    /\ trace' = [trace EXCEPT ![t] =
                    IF resolveVarRef(NodeAt(ast, cur[t]).name, args[t]).err # NoErr
                    THEN @ \o <<Event("reduce", cur[t]), Event("error", cur[t])>>
                    ELSE Append(@, Event("reduce", cur[t]))]
    /\ UNCHANGED <<ast, falseExpr, now, args, stack, cur, out, reads, probe, probeOut>>

\* a literal node: `return expr, nil` hands out the node itself
EnterLiteral(t) ==
    /\ NoPanic
    /\ pc[t] = "enter"
    /\ NodeAt(ast, cur[t]).type \in LiteralTypes
    /\ ret' = [ret EXCEPT ![t] =
                  Ret(Operand(AstPtr(cur[t]), NodeAt(ast, cur[t])), NoErr)]
    /\ pc' = [pc EXCEPT ![t] = "return"]
    /\ trace' = [trace EXCEPT ![t] = Append(@, Event("reduce", cur[t]))]
    /\ UNCHANGED <<ast, falseExpr, now, args, stack, cur, out, reads, probe, probeOut>>

\* a BinaryExpr that short-circuits: AND with a false LHS and OR with a true
\* LHS return the LHS value without reducing the RHS
ShortCircuits(op, lv, env) ==
    /\ Load(lv, env).type = "BooleanLiteral"
    /\ \/ op = "AND" /\ ~Load(lv, env).bool
       \/ op = "OR" /\ Load(lv, env).bool

ReturnLHS_shortCircuit(t) ==
    /\ NoPanic
    /\ pc[t] = "return"
    /\ stack[t] # <<>>
    /\ Top(t).phase = "LHS"
    /\ IF ret[t].err # NoErr
       THEN /\ stack' = [stack EXCEPT ![t] = Pop(t)]
            /\ ret' = [ret EXCEPT ![t] = RetFalseExpr(ret[t].err)]
            /\ trace' = [trace EXCEPT ![t] = Append(@, Event("lhsError", Top(t).path))]
            /\ UNCHANGED <<pc, cur>>
       ELSE IF ShortCircuits(NodeAt(ast, Top(t).path).Op,
                             Operand(ret[t].ptr, ret[t].lit), CurEnv)
       THEN /\ stack' = [stack EXCEPT ![t] = Pop(t)]
            /\ trace' = [trace EXCEPT ![t] = Append(@, Event("lhsValue", Top(t).path))]
            /\ UNCHANGED <<pc, cur, ret>>
       ELSE /\ stack' = [stack EXCEPT ![t] =
                            Append(Pop(t), Frame(Top(t).path, "RHS",
                                                 Operand(ret[t].ptr, ret[t].lit)))]
            /\ cur' = [cur EXCEPT ![t] = Top(t).path \o <<"RHS">>]
            /\ pc' = [pc EXCEPT ![t] = "enter"]
            /\ trace' = [trace EXCEPT ![t] = Append(@, Event("lhsValue", Top(t).path))]
            /\ UNCHANGED ret
    /\ UNCHANGED <<ast, falseExpr, now, args, out, reads, probe, probeOut>>

\* evaluateSubtree(n.LHS, args) has returned: on an error the BinaryExpr
\* returns (falseExpr, err), otherwise evaluateSubtree(n.RHS, args) is called
ReturnLHS(t) ==
    /\ NoPanic
    /\ pc[t] = "return"
    /\ stack[t] # <<>>
    /\ Top(t).phase = "LHS"
    /\ IF ret[t].err # NoErr
       THEN /\ stack' = [stack EXCEPT ![t] = Pop(t)]
            /\ ret' = [ret EXCEPT ![t] = RetFalseExpr(ret[t].err)]
            /\ trace' = [trace EXCEPT ![t] = Append(@, Event("lhsError", Top(t).path))]
            /\ UNCHANGED <<pc, cur>>
       ELSE /\ stack' = [stack EXCEPT ![t] =
                            Append(Pop(t), Frame(Top(t).path, "RHS",
                                                 Operand(ret[t].ptr, ret[t].lit)))]
            /\ cur' = [cur EXCEPT ![t] = Top(t).path \o <<"RHS">>]
            /\ pc' = [pc EXCEPT ![t] = "enter"]
            /\ trace' = [trace EXCEPT ![t] = Append(@, Event("lhsValue", Top(t).path))]
            /\ UNCHANGED ret
    /\ UNCHANGED <<ast, falseExpr, now, args, out, reads, probe, probeOut>>

\* applyBefore reads the clock when its operands are a time and a number
ReadsClock(op, l, r, env) ==
    /\ op = "BEFORE"
    /\ Load(l, env).type = "TimeLiteral"
    /\ Load(r, env).type = "NumberLiteral"

\* evaluateSubtree(n.RHS, args) has returned: on an error the BinaryExpr
\* returns (falseExpr, err), otherwise applyOperator(n.Op, lv, rv)
ReturnRHS(t) ==
    /\ NoPanic
    /\ pc[t] = "return"
    /\ stack[t] # <<>>
    /\ Top(t).phase = "RHS"
    /\ IF ret[t].err # NoErr
       THEN /\ stack' = [stack EXCEPT ![t] = Pop(t)]
            /\ ret' = [ret EXCEPT ![t] = RetFalseExpr(ret[t].err)]
            /\ trace' = [trace EXCEPT ![t] = Append(@, Event("rhsError", Top(t).path))]
            /\ UNCHANGED <<pc, ast, falseExpr, reads>>
       ELSE LET op == NodeAt(ast, Top(t).path).Op
                rv == Operand(ret[t].ptr, ret[t].lit)
                o == applyOperator(op, Top(t).lv, rv, CurEnv)
            IN  /\ trace' = [trace EXCEPT ![t] =
                                IF o.res.err # NoErr
                                THEN @ \o <<Event("apply", Top(t).path),
                                            Event("error", Top(t).path)>>
                                ELSE Append(@, Event("apply", Top(t).path))]
                /\ reads' = [reads EXCEPT ![t] =
                                IF ReadsClock(op, Top(t).lv, rv, CurEnv)
                                THEN Append(@, now) ELSE @]
                /\ falseExpr' = o.env.falseExpr
                /\ ast' = o.env.ast
                /\ IF o.res.panic
                   THEN /\ pc' = [pc EXCEPT ![t] = "panic"]
                        /\ UNCHANGED <<stack, ret>>
                   ELSE /\ stack' = [stack EXCEPT ![t] = Pop(t)]
                        /\ ret' = [ret EXCEPT ![t] = o.res]
                        /\ UNCHANGED pc
    /\ UNCHANGED <<now, args, cur, out, probe, probeOut>>

\* the root's evaluateSubtree has returned to Evaluate
Finish(t) ==
    /\ NoPanic
    /\ pc[t] = "return"
    /\ stack[t] = <<>>
    /\ out' = [out EXCEPT ![t] = EvaluateResult(ret[t], CurEnv)]
    /\ pc' = [pc EXCEPT ![t] = "done"]
    /\ UNCHANGED <<ast, falseExpr, now, args, stack, cur, ret, trace, reads,
                   probe, probeOut>>

\* the caller has taken the result; the goroutine may call Evaluate again
Release(t) ==
    /\ NoPanic
    /\ pc[t] = "done"
    /\ pc' = [pc EXCEPT ![t] = "idle"]
    /\ args' = [args EXCEPT ![t] = NoArgs]
    /\ out' = [out EXCEPT ![t] = NoOut]
    /\ ret' = [ret EXCEPT ![t] = NoRet]
    /\ cur' = [cur EXCEPT ![t] = <<>>]
    /\ trace' = [trace EXCEPT ![t] = <<>>]
    /\ reads' = [reads EXCEPT ![t] = <<>>]
    /\ UNCHANGED <<ast, falseExpr, now, stack, probe, probeOut>>

\* the clock moves forward between any two steps
Instants == {k * (SecondsPerDay + 1) : k \in 0..MaxDays}

Tick ==
    /\ NoPanic
    /\ \E i \in Instants : i > now /\ now' = i
    /\ UNCHANGED <<ast, falseExpr, pc, args, stack, cur, ret, out, trace, reads,
                   probe, probeOut>>

\* ---------------------------------------------------- the inputs of Spec
Names == {"A", "B", "c"}
Fields(a, b, c) == [n \in Names |-> IF n = "A" THEN a ELSE IF n = "B" THEN b ELSE c]
Record(shape, fields) == [shape |-> shape, fields |-> fields]
NoFields == Fields(Absent, Absent, Absent)

Records ==
    { Record("map[string]interface{}", Fields(BoolVal(TRUE), TimeVal(0), Absent)),
      Record("struct", Fields(StringVal(<<"b">>), StringsVal(<< <<"b">> >>),
                              IntVal("int", 1))),
      Record("string", NoFields) }

Leaves ==
    { BooleanLiteral(TRUE), BooleanLiteral(FALSE), NumberLiteral(Scale),
      StringLiteral(<<"a">>), StringLiteral(<<"(">>),
      VarRef("A"), VarRef("B"), NilLit }

LeftLeaves ==
    { BooleanLiteral(TRUE), BooleanLiteral(FALSE), StringLiteral(<<"a">>),
      VarRef("A"), VarRef("B") }

RightLeaves ==
    { BooleanLiteral(TRUE), NumberLiteral(Scale), StringLiteral(<<"a">>),
      VarRef("A"), VarRef("B"), NilLit }

TreeOperators == {"AND", "OR", "EQ", "BEFORE", "NOTIN", "NEREG"}

Depth1 ==
    {BinaryExpr(op, l, r) : op \in TreeOperators, l \in LeftLeaves, r \in RightLeaves}
    \cup {ParenExpr(e) : e \in Leaves}
    \cup { BinaryExpr("NEREG", StringLiteral(<<"a">>), StringLiteral(<<"(">>)),
           BinaryExpr("LTE", VarRef("A"), NumberLiteral(Scale)),
           BinaryExpr("ILLEGAL", BooleanLiteral(TRUE), BooleanLiteral(TRUE)) }

Depth2 ==
    { BinaryExpr("AND", BinaryExpr("EQ", VarRef("A"), BooleanLiteral(FALSE)),
                        BinaryExpr("NEREG", VarRef("A"), StringLiteral(<<"a">>))),
      BinaryExpr("OR", BinaryExpr("BEFORE", VarRef("B"), NumberLiteral(Scale)),
                       ParenExpr(BinaryExpr("EQ", VarRef("B"), VarRef("B")))),
      BinaryExpr("AND", ParenExpr(BinaryExpr("EQ", VarRef("B"), VarRef("B"))),
                        BinaryExpr("NOTIN", VarRef("A"), VarRef("B"))),
      BinaryExpr("EQ", BinaryExpr("BEFORE", VarRef("B"), NumberLiteral(Scale)),
                       BinaryExpr("BEFORE", VarRef("B"), NumberLiteral(0))) }

Trees == Leaves \cup Depth1 \cup Depth2

Init ==
    /\ ast \in Trees
    /\ falseExpr = FALSE
    /\ now = 0
    /\ pc = [t \in Goroutines |-> "idle"]
    /\ args = [t \in Goroutines |-> NoArgs]
    /\ stack = [t \in Goroutines |-> <<>>]
    /\ cur = [t \in Goroutines |-> <<>>]
    /\ ret = [t \in Goroutines |-> NoRet]
    /\ out = [t \in Goroutines |-> NoOut]
    /\ trace = [t \in Goroutines |-> <<>>]
    /\ reads = [t \in Goroutines |-> <<>>]
    /\ probe = NoProbe
    /\ probeOut = NoProbeOut

Next ==
    \/ \E t \in Goroutines, a \in Records : Call(t, a)
    \/ \E t \in Goroutines : EnterNil(t)
    \/ \E t \in Goroutines : EnterParenExpr(t)
    \/ \E t \in Goroutines : EnterBinaryExpr(t)
    \/ \E t \in Goroutines : EnterVarRef(t)
    \/ \E t \in Goroutines : EnterLiteral(t)
    \/ \E t \in Goroutines : ReturnLHS(t)
    \/ \E t \in Goroutines : ReturnRHS(t)
    \/ \E t \in Goroutines : Finish(t)
    \/ \E t \in Goroutines : Release(t)
    \/ Tick

Spec == Init /\ [][Next]_vars

\* ------------------------------------------- one operator, one VarRef lookup
\* The operators and the VarRef case on their own: the input is drawn from
\* every pair of operand literals (every record value), and applied once.
Strings == {<<>>, <<"a">>, <<"b">>, <<"a", "b">>, <<"^", "b">>, <<".">>, <<"(">>}
Numbers == 0..MaxNum
HalfDay == SecondsPerDay \div 2
ProbeInstants == {k * HalfDay + e : k \in 0..MaxHalfDays, e \in {0, 1}}

Literals ==
    {BooleanLiteral(b) : b \in BOOLEAN}
    \cup {NumberLiteral(n) : n \in Numbers}
    \cup {StringLiteral(x) : x \in Strings}
    \cup {TimeLiteral(0), TimeLiteral(HalfDay), DurationLiteral(1)}
    \cup {SliceStringLiteral(ss) : ss \in {<<>>, << <<"a">> >>, << <<"b">>, <<"a", "b">> >>}}
    \cup {SliceNumberLiteral(ns) : ns \in {<<>>, <<Scale>>, <<0, MaxNum>>}}

Values ==
    {NilVal, ChanVal, TimeVal(0), TimeVal(HalfDay), StringVal(<<"a">>),
     BoolVal(TRUE), BoolVal(FALSE), StringsVal(<<>>), StringsVal(<< <<"a">> >>),
     IntsVal(<<>>), IntsVal(<<1>>)}
    \cup {IntVal(rt, i) : rt \in ConvertedIntTypes \cup OtherIntTypes, i \in {-1, 1}}
    \cup {FloatVal(rt, f) : rt \in FloatTypes, f \in Numbers}

ProbeRecords ==
    {Record(shape, Fields(a, Absent, c)) :
        shape \in {"map[string]interface{}", "struct"},
        a \in Values \cup {Absent}, c \in {Absent, IntVal("int", 1)}}
    \cup {Record("map[string]string", Fields(a, Absent, Absent)) :
            a \in {Absent, StringVal(<<"a">>)}}
    \cup {Record(shape, NoFields) : shape \in {"*struct", "string", "int", "nil"}}

ApplyProbes ==
    {[kind |-> "apply", op |-> op, l |-> Fresh(l), r |-> Fresh(r)] :
        op \in Tokens, l \in Literals, r \in Literals}

ResolveProbes ==
    {[kind |-> "resolve", name |-> n, args |-> a] : n \in Names, a \in ProbeRecords}

InitProbe ==
    /\ probe \in ApplyProbes \cup ResolveProbes
    /\ probeOut = NoProbeOut
    /\ now \in IF probe.kind = "apply" /\ probe.op = "BEFORE" THEN ProbeInstants ELSE {0}
    /\ ast = NilLit
    /\ falseExpr = FALSE
    /\ pc = [t \in Goroutines |-> "idle"]
    /\ args = [t \in Goroutines |-> NoArgs]
    /\ stack = [t \in Goroutines |-> <<>>]
    /\ cur = [t \in Goroutines |-> <<>>]
    /\ ret = [t \in Goroutines |-> NoRet]
    /\ out = [t \in Goroutines |-> NoOut]
    /\ trace = [t \in Goroutines |-> <<>>]
    /\ reads = [t \in Goroutines |-> <<>>]

\* applyOperator(op, l, r)
ApplyProbe ==
    /\ probe.kind = "apply"
    /\ probeOut = NoProbeOut
    /\ LET o == applyOperator(probe.op, probe.l, probe.r, CurEnv) IN
       /\ probeOut' = [kind |-> "apply", res |-> o.res]
       /\ falseExpr' = o.env.falseExpr
       /\ ast' = o.env.ast
    /\ UNCHANGED <<now, pc, args, stack, cur, ret, out, trace, reads, probe>>

\* the VarRef case of evaluateSubtree
ResolveProbe ==
    /\ probe.kind = "resolve"
    /\ probeOut = NoProbeOut
    /\ probeOut' = [kind |-> "resolve", res |-> resolveVarRef(probe.name, probe.args)]
    /\ UNCHANGED <<ast, falseExpr, now, pc, args, stack, cur, ret, out, trace,
                   reads, probe>>

NextProbe == ApplyProbe \/ ResolveProbe

SpecProbe == InitProbe /\ [][NextProbe]_vars

\* ==================================================================== claims
Running(t) == pc[t] \in {"enter", "return"}
Ended(t) == pc[t] \in {"done", "panic"}
ErrorProduced(t) == \E i \in 1..Len(trace[t]) : trace[t][i].ev = "error"

\* C1: every Evaluate call ends by returning a boolean and an optional
\* error: no tree and no record make it (or an apply* operator) panic.
C1_NeverPanics == \A t \in Goroutines : pc[t] # "panic"

\* C2: with a non-nil expression and a record that is neither a map nor a
\* struct (a bare string), a call that returns has returned an error and false.
C2_BadRecordErrors ==
    \A t \in Goroutines :
        (pc[t] = "done" /\ ast # NilLit /\ args[t].shape = "string")
            => (out[t].err # NoErr /\ out[t].val = FALSE)

\* the operand requirement of each operator, on the kinds of its operands
MeetsRequirement(op, lt, rt) ==
    CASE op \in {"EQ", "NEQ"} ->
            lt = rt /\ lt \in {"StringLiteral", "NumberLiteral", "BooleanLiteral"}
      [] op \in {"GT", "GTE", "LT", "LTE"} ->
            lt = "NumberLiteral" /\ rt = "NumberLiteral"
      [] op \in {"AND", "OR", "XOR", "NAND"} ->
            lt = "BooleanLiteral" /\ rt = "BooleanLiteral"
      [] op = "BEFORE" -> lt = "TimeLiteral" /\ rt = "NumberLiteral"
      [] op \in {"IN", "NOTIN"} ->
            \/ lt = "StringLiteral" /\ rt = "SliceStringLiteral"
            \/ lt = "NumberLiteral" /\ rt = "SliceNumberLiteral"
      [] op = "CONTAINS" ->
            \/ rt = "StringLiteral" /\ lt \in {"StringLiteral", "SliceStringLiteral"}
            \/ rt = "NumberLiteral" /\ lt = "SliceNumberLiteral"
      [] op \in {"EREG", "NEREG"} -> lt = "StringLiteral" /\ rt = "StringLiteral"
      [] OTHER -> FALSE

Applied == probe.kind = "apply" /\ probeOut.kind = "apply"

\* C3: an operator applied to operands whose kinds violate its requirement
\* never returns a value with no error.
C3_KindViolationIsAnError ==
    (Applied /\ probe.op \in Operators
        /\ ~MeetsRequirement(probe.op, probe.l.lit.type, probe.r.lit.type))
        => ~(~probeOut.res.panic /\ probeOut.res.err = NoErr)

\* C4: when the reduction of some node produced an error (or the expression
\* is nil), the call ends by returning a non-nil error and false.
C4_ErrorsPropagate ==
    \A t \in Goroutines :
        (Ended(t) /\ (ErrorProduced(t) \/ ast = NilLit))
            => (pc[t] = "done" /\ out[t].err # NoErr /\ out[t].val = FALSE)

ProbeEnv == Env(FALSE, NilLit, now)
Negates(neg, pos) ==
    /\ ~neg.panic
    /\ (neg.err # NoErr) = (pos.err # NoErr)
    /\ pos.err = NoErr => Load(neg, CurEnv).bool = ~Load(pos, ProbeEnv).bool
Comparable(lt, rt) ==
    lt = rt /\ lt \in {"StringLiteral", "NumberLiteral", "BooleanLiteral"}

\* C5: applyNQ returns the negation of applyEQ on comparable operands; for
\* all operands applyNOTIN, applyNAND and applyNEREG return the negation of
\* applyIN, applyAND and applyEREG, with the same error/no-error outcome.
C5_NegationDuals ==
    Applied =>
        /\ (probe.op = "NEQ" /\ Comparable(probe.l.lit.type, probe.r.lit.type))
              => Negates(probeOut.res, applyEQ(probe.l, probe.r, ProbeEnv))
        /\ probe.op = "NOTIN"
              => Negates(probeOut.res, applyIN(probe.l, probe.r, ProbeEnv))
        /\ probe.op = "NAND"
              => Negates(probeOut.res, applyAND(probe.l, probe.r, ProbeEnv))
        /\ probe.op = "NEREG"
              => Negates(probeOut.res, applyEREG(probe.l, probe.r, ProbeEnv))

Resolved == probe.kind = "resolve" /\ probeOut.kind = "resolve"
Present ==
    /\ probe.args.shape \in {"map[string]interface{}", "struct"}
    /\ Exported(probe.name)
    /\ probe.args.fields[probe.name] # Absent

\* the literal a record value is to be classified into, by its runtime type
Classified(val) ==
    CASE val.rt = "time.Time" -> Ret(Fresh(TimeLiteral(val.time)), NoErr)
      [] val.rt \in ConvertedIntTypes \cup OtherIntTypes
            -> Ret(Fresh(NumberLiteral(val.int * Scale)), NoErr)
      [] val.rt \in FloatTypes -> Ret(Fresh(NumberLiteral(val.flt)), NoErr)
      [] val.rt = "string" -> Ret(Fresh(StringLiteral(val.str)), NoErr)
      [] val.rt = "bool" -> Ret(Fresh(BooleanLiteral(val.bool)), NoErr)
      [] val.rt = "[]string" -> Ret(Fresh(SliceStringLiteral(val.strs)), NoErr)
      [] OTHER -> RetFalseExpr("Unsupported argument type")

\* C9: a VarRef whose name is present in the record gives the literal of the
\* value's runtime type (time, number for every integer and floating type,
\* string, boolean, slice of strings), and an "unsupported argument type"
\* error for every other runtime type.
C9_ClassifiesByRuntimeType ==
    (Resolved /\ Present)
        => LET want == Classified(probe.args.fields[probe.name]) IN
           /\ ~probeOut.res.panic
           /\ probeOut.res.err = want.err
           /\ want.err = NoErr => probeOut.res.lit = want.lit

\* C10: BEFORE on a time t and a day count d is true exactly when the time
\* elapsed since t is greater than d * 86400 seconds (d = n/Scale days).
C10_BeforeThreshold ==
    (Applied /\ probe.op = "BEFORE" /\ probe.l.lit.type = "TimeLiteral"
        /\ probe.r.lit.type = "NumberLiteral")
        => /\ ~probeOut.res.panic
           /\ probeOut.res.err = NoErr
           /\ probeOut.res.lit.bool
                = ((now - probe.l.lit.time) * Scale > probe.r.lit.num * SecondsPerDay)

Last(path) == path[Len(path)]
Parent(path) == SubSeq(path, 1, Len(path) - 1)

\* C6: a BinaryExpr reduces its LHS, then its RHS, then applies the operator;
\* whatever the operator and the value of the LHS, the RHS is reduced next.
C6_LeftThenRightThenApply ==
    \A t \in Goroutines :
        \A k \in 1..Len(trace[t]) :
            LET e == trace[t][k] IN
            /\ e.ev = "apply" =>
                  \E i, j \in 1..k :
                      /\ i < j
                      /\ trace[t][i] = Event("reduce", e.path \o <<"LHS">>)
                      /\ trace[t][j] = Event("reduce", e.path \o <<"RHS">>)
            /\ (e.ev = "reduce" /\ e.path # <<>> /\ Last(e.path) = "RHS") =>
                  \E i \in 1..k : trace[t][i] = Event("lhsValue", Parent(e.path))
            /\ e.ev = "lhsValue" =>
                  IF k < Len(trace[t])
                  THEN trace[t][k + 1] = Event("reduce", e.path \o <<"RHS">>)
                  ELSE pc[t] = "enter" /\ cur[t] = e.path \o <<"RHS">>

\* an AND whose LHS is false has reduced its RHS and reported the error in it
C6_Witness ==
    \E t \in Goroutines :
        /\ pc[t] = "done"
        /\ ast.type = "BinaryExpr"
        /\ ast.Op = "AND"
        /\ ast.LHS = BooleanLiteral(FALSE)
        /\ out[t].err # NoErr
        /\ \E k \in 1..Len(trace[t]) : trace[t][k] = Event("rhsError", <<>>)

\* C7: no step of any Evaluate call, alone or interleaved with another,
\* writes to a node of the tree or to falseExpr, which stays false.
C7_NoWrites == [][falseExpr' = FALSE /\ ast' = ast]_vars

\* a NEREG or NOTIN has negated its result and returned while the other
\* goroutine is in the middle of evaluating the same tree
C7_Witness ==
    \E t, u \in Goroutines :
        /\ pc[t] = "done"
        /\ out[t] = [val |-> TRUE, err |-> NoErr]
        /\ ast.type = "BinaryExpr"
        /\ ast.Op \in {"NEREG", "NOTIN"}
        /\ pc[u] = "return"

\* C8 as stated: two calls with the same tree and the same record return
\* the same boolean and the same error, whenever they are made.
C8_SameCallSameResult ==
    \A t, u \in Goroutines :
        (pc[t] = "done" /\ pc[u] = "done" /\ args[t] = args[u])
            => out[t] = out[u]

\* C8 amended: two calls with the same tree and the same record return the
\* same boolean and the same error when the clock readings taken by BEFORE
\* are the same in both (in particular when no BEFORE reads the clock).
C8_SameCallSameClockSameResult ==
    \A t, u \in Goroutines :
        (pc[t] = "done" /\ pc[u] = "done" /\ args[t] = args[u]
            /\ reads[t] = reads[u])
            => out[t] = out[u]

\* two calls that applied BEFORE at the same instant, after the clock moved
C8_Witness ==
    \E t, u \in Goroutines :
        /\ t # u
        /\ pc[t] = "done" /\ pc[u] = "done"
        /\ args[t] = args[u]
        /\ reads[t] # <<>> /\ reads[t] = reads[u]
        /\ now > 0
        /\ out[t] = [val |-> TRUE, err |-> NoErr]

\* ------------------------------------- map records that differ in their keys
\* the maps handed to Evaluate: every choice of entries under the three names
MapRecords ==
    { Record("map[string]interface{}", Fields(a, b, c)) :
        a \in {Absent, NilVal, BoolVal(TRUE), StringVal(<<"a">>)},
        b \in {Absent, TimeVal(0)},
        c \in {Absent, IntVal("int", 1)} }

MapTrees ==
    { VarRef("A"), NilLit, BooleanLiteral(TRUE),
      ParenExpr(VarRef("B")),
      BinaryExpr("EQ", VarRef("A"), BooleanLiteral(TRUE)),
      BinaryExpr("EQ", VarRef("A"), StringLiteral(<<"a">>)),
      BinaryExpr("NEREG", VarRef("A"), StringLiteral(<<"a">>)),
      BinaryExpr("BEFORE", VarRef("B"), NumberLiteral(Scale)),
      BinaryExpr("OR", VarRef("A"), VarRef("B")),
      BinaryExpr("OR", VarRef("A"), NilLit),
      BinaryExpr("EQ", VarRef("A"), VarRef("c")),
      BinaryExpr("AND", VarRef("A"),
                        BinaryExpr("BEFORE", VarRef("B"), NumberLiteral(Scale))) }

InitMaps ==
    /\ ast \in MapTrees
    /\ falseExpr = FALSE
    /\ now = 0
    /\ pc = [t \in Goroutines |-> "idle"]
    /\ args = [t \in Goroutines |-> NoArgs]
    /\ stack = [t \in Goroutines |-> <<>>]
    /\ cur = [t \in Goroutines |-> <<>>]
    /\ ret = [t \in Goroutines |-> NoRet]
    /\ out = [t \in Goroutines |-> NoOut]
    /\ trace = [t \in Goroutines |-> <<>>]
    /\ reads = [t \in Goroutines |-> <<>>]
    /\ probe = NoProbe
    /\ probeOut = NoProbeOut

NextMaps ==
    \/ \E t \in Goroutines, a \in MapRecords : Call(t, a)
    \/ \E t \in Goroutines : EnterNil(t)
    \/ \E t \in Goroutines : EnterParenExpr(t)
    \/ \E t \in Goroutines : EnterBinaryExpr(t)
    \/ \E t \in Goroutines : EnterVarRef(t)
    \/ \E t \in Goroutines : EnterLiteral(t)
    \/ \E t \in Goroutines : ReturnLHS(t)
    \/ \E t \in Goroutines : ReturnRHS(t)
    \/ \E t \in Goroutines : Finish(t)
    \/ \E t \in Goroutines : Release(t)
    \/ Tick

SpecMaps == InitMaps /\ [][NextMaps]_vars

\* the names referenced by the VarRef nodes of an expression
RECURSIVE Refs(_)
Refs(e) ==
    IF e.type = "VarRef" THEN {e.name}
    ELSE IF e.type = "ParenExpr" THEN Refs(e.Expr)
    ELSE IF e.type = "BinaryExpr" THEN Refs(e.LHS) \cup Refs(e.RHS)
    ELSE {}

\* two map records that hold the same value under every referenced name
SameReferenced(a, b) ==
    /\ a.shape = "map[string]interface{}"
    /\ b.shape = "map[string]interface{}"
    /\ \A n \in Refs(ast) : a.fields[n] = b.fields[n]

\* C11: two calls of Evaluate on the same expression, with map records that
\* hold the same value under every name a VarRef of the expression refers to
\* and with the same clock readings, end the same way: one panics exactly if
\* the other does, and if they return, they return the same boolean and the
\* same error
C11_OnlyReferencedEntries ==
    \A t, u \in Goroutines :
        (Ended(t) /\ Ended(u) /\ SameReferenced(args[t], args[u]))
            => /\ pc[t] = pc[u]
               /\ (pc[t] = "done" /\ reads[t] = reads[u]) => out[t] = out[u]

\* two calls that resolved a VarRef and returned a boolean without error, on
\* records that differ only under a name the expression does not refer to
C11_Witness ==
    \E t, u \in Goroutines :
        /\ t # u
        /\ pc[t] = "done" /\ pc[u] = "done"
        /\ Refs(ast) # {}
        /\ SameReferenced(args[t], args[u])
        /\ \E n \in Names \ Refs(ast) :
              /\ args[t].fields[n] # args[u].fields[n]
              /\ args[t].fields[n] # Absent
        /\ reads[t] = reads[u]
        /\ out[t] = [val |-> TRUE, err |-> NoErr]
        /\ out[u] = out[t]

====
